---- MODULE Spec2Model ----
(***************************************************************************)
(* Model of league_tracker_ui.py: the CommanderLeague ledger (roster,      *)
(* history log, standings, persistence) and the LeagueApp callbacks that   *)
(* drive it.                                                               *)
(*                                                                         *)
(* A Python dict is insertion-ordered, and the code depends on that order  *)
(* (iteration in get_standings and record_game_results, key order in the   *)
(* JSON file), so a dict is a sequence of entries with distinct keys.      *)
(* The timestamp of a game record is written once and never read by the    *)
(* ledger; it is left out of the record.                                   *)
(***************************************************************************)
EXTENDS Integers, Sequences, FiniteSets, TLC

VARIABLES
    players,    \* CommanderLeague.players: sequence of player entries
    history,    \* CommanderLeague.history: sequence of game records
    file,       \* league_scores.json on disk: NoFile or the dumped text
    op,         \* the ledger call made by the last step, with its arguments
    ret,        \* what that call produced: the list get_standings returned,
                \* the rows export_to_csv wrote, <<>> otherwise
    sort_mode,  \* LeagueApp.sort_mode
    dialogs,    \* open Record Game dialogs (Toplevel children of the root)
    add_dialogs, \* number of open Add Player dialogs
    saved       \* the league as save_to_file last saw it (NoFile: never saved)

vars == <<players, history, file, op, ret, sort_mode, dialogs, add_dialogs, saved>>

----------------------------------------------------------------------------
(* Bounds and input sets *)

MaxGames == 2

Names == {"A", "B"}

NoFile == "absent"

DNP == "Did Not Play"

placement_options == <<"1st", "2nd", "3rd", "4th", "5th+", "Did Not Play">>

ValidTags == {placement_options[i] : i \in 1..Len(placement_options)}

UnknownTag == "6th"

team_colors == <<"red", "blue", "green", "orange", "purple", "magenta", "cyan", "yellow", "pink">>

MainPlayers == <<"Mike", "Mez", "Dan", "Vik", "Noah", "Lucas", "Isaac", "Layla", "Steve">>

----------------------------------------------------------------------------
(* dict helpers *)

Range(s) == {s[i] : i \in 1..Len(s)}

Keys(p) == {p[i].name : i \in 1..Len(p)}

Idx(p, n) == CHOOSE i \in 1..Len(p) : p[i].name = n

Get(p, n) == p[Idx(p, n)]

ItemKeys(items) == {items[i][1] : i \in 1..Len(items)}

TagOf(items, n) == items[CHOOSE i \in 1..Len(items) : items[i][1] = n][2]

IsPrefix(s, t) == Len(s) <= Len(t) /\ SubSeq(t, 1, Len(s)) = s

\* all sequences without repetition over the set S, of every length
RECURSIVE Perms(_)
Perms(S) ==
    IF S = {} THEN {<<>>}
    ELSE {<<>>} \cup UNION {{<<x>> \o t : t \in Perms(S \ {x})} : x \in S}

----------------------------------------------------------------------------
(* CommanderLeague *)

NewPlayer(name, i) ==
    [name |-> name, points |-> 0, games_played |-> 0, mvp_count |-> 0,
     color |-> team_colors[(i % Len(team_colors)) + 1]]

\* __init__(players): enumerate(players) gives the color index
Construct(names) == [i \in 1..Len(names) |-> NewPlayer(names[i], i - 1)]

\* a table with the award of "4th" mistyped
placement_points_typo(place) ==
    CASE place = "1st" -> 5
      [] place = "2nd" -> 3
      [] place = "3rd" -> 2
      [] place = "4th" -> 2
      [] place = "5th+" -> 0
      [] OTHER -> 0

placement_points(place) ==
    CASE place = "1st" -> 5
      [] place = "2nd" -> 3
      [] place = "3rd" -> 2
      [] place = "4th" -> 1
      [] place = "5th+" -> 0
      [] OTHER -> 0

\* a loop that looks every name up before it credits any
RECURSIVE CreditAll(_, _, _)
CreditAll(p, items, i) ==
    IF i > Len(items) THEN [players |-> p, raised |-> FALSE]
    ELSE IF items[i][2] = DNP THEN CreditAll(p, items, i + 1)
    ELSE LET k == Idx(p, items[i][1])
         IN CreditAll([p EXCEPT ![k].points = @ + placement_points(items[i][2]),
                                ![k].games_played = @ + 1], items, i + 1)

Credit_validated(p, items, i) ==
    IF \E j \in i..Len(items) : items[j][1] \notin Keys(p) /\ items[j][2] # DNP
    THEN [players |-> p, raised |-> TRUE]
    ELSE CreditAll(p, items, i)

\* one pass of the loop "for player, place in results_dict.items()", from
\* item i on; self.players[player] raises KeyError for a name not in the dict
RECURSIVE Credit(_, _, _)
Credit(p, items, i) ==
    IF i > Len(items) THEN [players |-> p, raised |-> FALSE]
    ELSE LET player == items[i][1]
             place == items[i][2]
         IN IF place = DNP THEN Credit(p, items, i + 1)
            ELSE IF player \notin Keys(p) THEN [players |-> p, raised |-> TRUE]
            ELSE LET k == Idx(p, player)
                     q == [p EXCEPT ![k].points = @ + placement_points(place),
                                    ![k].games_played = @ + 1]
                 IN Credit(q, items, i + 1)

\* an MVP credit that forgets the point
CreditMvp_countonly(p, mvp) ==
    IF mvp # "" /\ mvp \in Keys(p)
    THEN [p EXCEPT ![Idx(p, mvp)].mvp_count = @ + 1]
    ELSE p

\* "if mvp and mvp in self.players"
CreditMvp(p, mvp) ==
    IF mvp # "" /\ mvp \in Keys(p)
    THEN LET k == Idx(p, mvp)
         IN [p EXCEPT ![k].points = @ + 1, ![k].mvp_count = @ + 1]
    ELSE p

\* the players dict after record_game_results, and whether it raised
Recorded(p, items, mvp) ==
    LET c == Credit(p, items, 1)
    IN IF c.raised THEN c
       ELSE [players |-> CreditMvp(c.players, mvp), raised |-> FALSE]

GameRecord(items, notes, mvp, deck_used) ==
    [results |-> items, notes |-> notes, mvp |-> mvp, deck_used |-> deck_used]

\* a log that takes the new game at the front
AppendGame_front(h, game) == <<game>> \o h

\* self.history.append(game)
AppendGame(h, game) == Append(h, game)

\* average as an exact rational <<numerator, denominator>> in lowest terms
RECURSIVE Gcd(_, _)
Gcd(a, b) == IF b = 0 THEN a ELSE Gcd(b, a % b)

Avg(points, games) ==
    IF games > 0
    THEN LET g == Gcd(points, games) IN <<points \div g, games \div g>>
    ELSE <<0, 1>>

AvgGeq(a, b) == a[1] * b[2] >= b[1] * a[2]

StandingRow(d) == <<d.name, d.points, d.games_played, Avg(d.points, d.games_played), d.mvp_count>>

\* a sort that ignores sort_by
SortKeyGeq_average(sort_by, x, y) == x[4][1] * y[4][2] >= y[4][1] * x[4][2]

SortKeyGeq(sort_by, x, y) ==
    IF sort_by = "games" THEN x[3] >= y[3] ELSE AvgGeq(x[4], y[4])

\* sorted(..., reverse=True) is stable: an element goes after every element
\* whose key is >= its own
InsertDesc(sort_by, s, x) ==
    LET n == Cardinality({i \in 1..Len(s) : SortKeyGeq(sort_by, s[i], x)})
        ok == {i \in 0..Len(s) : /\ \A j \in 1..i : SortKeyGeq(sort_by, s[j], x)
                                 /\ \A j \in (i + 1)..Len(s) : ~SortKeyGeq(sort_by, s[j], x)}
        pos == IF n \in ok THEN n ELSE 0
    IN SubSeq(s, 1, pos) \o <<x>> \o SubSeq(s, pos + 1, Len(s))

RECURSIVE SortedDesc(_, _, _)
SortedDesc(sort_by, rows, i) ==
    IF i = 0 THEN <<>>
    ELSE InsertDesc(sort_by, SortedDesc(sort_by, rows, i - 1), rows[i])

Standings(p, sort_by) ==
    SortedDesc(sort_by, [i \in 1..Len(p) |-> StandingRow(p[i])], Len(p))

\* json.dump: the dicts become JSON objects, members in insertion order
DumpPlayer(d) ==
    <<d.name, <<<<"points", d.points>>, <<"games_played", d.games_played>>,
                <<"mvp_count", d.mvp_count>>, <<"color", d.color>>>>>>

DumpGame(g) ==
    <<<<"results", g.results>>, <<"notes", g.notes>>, <<"mvp", g.mvp>>,
      <<"deck_used", g.deck_used>>>>

Dump(p, h) ==
    <<<<"players", [i \in 1..Len(p) |-> DumpPlayer(p[i])]>>,
      <<"history", [i \in 1..Len(h) |-> DumpGame(h[i])]>>>>

\* json.load: objects become dicts again, looked up by key
Member(obj, key) == obj[CHOOSE i \in 1..Len(obj) : obj[i][1] = key][2]

LoadPlayer(e) ==
    [name |-> e[1], points |-> Member(e[2], "points"),
     games_played |-> Member(e[2], "games_played"),
     mvp_count |-> Member(e[2], "mvp_count"), color |-> Member(e[2], "color")]

LoadGame(o) ==
    [results |-> Member(o, "results"), notes |-> Member(o, "notes"),
     mvp |-> Member(o, "mvp"), deck_used |-> Member(o, "deck_used")]

\* a load that rebuilds the dict back to front
LoadPlayers_reversed(text) ==
    LET ps == Member(text, "players")
    IN [i \in 1..Len(ps) |-> LoadPlayer(ps[Len(ps) + 1 - i])]

LoadPlayers(text) ==
    LET ps == Member(text, "players") IN [i \in 1..Len(ps) |-> LoadPlayer(ps[i])]

LoadHistory(text) ==
    LET hs == Member(text, "history") IN [i \in 1..Len(hs) |-> LoadGame(hs[i])]

\* f"{avg:.2f}": hundredths, rounded to nearest (ties to even)
Hundredths(avg) ==
    LET n == 100 * avg[1]
        q == n \div avg[2]
        r == n % avg[2]
    IN IF 2 * r > avg[2] \/ (2 * r = avg[2] /\ q % 2 = 1) THEN q + 1 ELSE q

CsvHeader == <<"Player", "Points", "Games Played", "Average Points per Game", "MVP Awards">>

CsvRows(p) ==
    LET st == Standings(p, "average")
    IN <<CsvHeader>> \o
       [i \in 1..Len(st) |-> <<st[i][1], st[i][2], st[i][3], Hundredths(st[i][4]), st[i][5]>>]

\* an add without the "name not in self.players" test
AddPlayerTo_overwrite(p, name) ==
    IF name = "" THEN p
    ELSE IF name \in Keys(p)
         THEN [p EXCEPT ![Idx(p, name)] = NewPlayer(name, Len(p))]
         ELSE Append(p, NewPlayer(name, Len(p)))

AddPlayerTo(p, name) ==
    IF name # "" /\ name \notin Keys(p)
    THEN Append(p, NewPlayer(name, Len(p)))
    ELSE p

RemovePlayerFrom(p, name) ==
    IF name \in Keys(p)
    THEN LET k == Idx(p, name) IN SubSeq(p, 1, k - 1) \o SubSeq(p, k + 1, Len(p))
    ELSE p

\* a reset that leaves mvp_count
ResetPlayers_keepmvp(p) ==
    [i \in 1..Len(p) |-> [p[i] EXCEPT !.points = 0, !.games_played = 0]]

ResetPlayers(p) ==
    [i \in 1..Len(p) |-> [p[i] EXCEPT !.points = 0, !.games_played = 0, !.mvp_count = 0]]

Call(name, arg) == [name |-> name, arg |-> arg, raised |-> FALSE]

\* a callback that returns without calling the league
NoCall == Call("none", "")

(* The methods of CommanderLeague, as actions on the league and the file.  *)
(* op and ret record the call and its result; saved records what the      *)
(* league was when the file was written.                                   *)

record_game_results(results_dict, notes, mvp, deck_used) ==
    /\ LET r == Recorded(players, results_dict, mvp)
       IN /\ history' = AppendGame(history, GameRecord(results_dict, notes, mvp, deck_used))
          /\ players' = r.players
          /\ op' = [name |-> "record", arg |-> <<results_dict, mvp>>, raised |-> r.raised]
    /\ ret' = <<>>
    /\ UNCHANGED <<file, saved>>

get_standings(sort_by) ==
    /\ ret' = Standings(players, sort_by)
    /\ op' = Call("standings", sort_by)
    /\ UNCHANGED <<players, history, file, saved>>

save_to_file ==
    /\ file' = Dump(players, history)
    /\ saved' = [players |-> players, history |-> history]
    /\ op' = Call("save", "")
    /\ ret' = <<>>
    /\ UNCHANGED <<players, history>>

load_from_file ==
    /\ IF file # NoFile
       THEN /\ players' = LoadPlayers(file)
            /\ history' = LoadHistory(file)
       ELSE UNCHANGED <<players, history>>
    /\ op' = Call("load", IF file # NoFile THEN "read" ELSE NoFile)
    /\ ret' = <<>>
    /\ UNCHANGED <<file, saved>>

export_to_csv ==
    /\ ret' = CsvRows(players)
    /\ op' = Call("export", "")
    /\ UNCHANGED <<players, history, file, saved>>

add_player(name) ==
    /\ players' = AddPlayerTo(players, name)
    /\ op' = Call("add", name)
    /\ ret' = <<>>
    /\ UNCHANGED <<history, file, saved>>

remove_player(name) ==
    /\ players' = RemovePlayerFrom(players, name)
    /\ op' = Call("remove", name)
    /\ ret' = <<>>
    /\ UNCHANGED <<history, file, saved>>

reset_league ==
    /\ players' = ResetPlayers(players)
    /\ history' = <<>>
    /\ op' = Call("reset", "")
    /\ ret' = <<>>
    /\ UNCHANGED <<file, saved>>

UNCHANGED_UI == UNCHANGED <<sort_mode, dialogs, add_dialogs>>

----------------------------------------------------------------------------
(* Specifications.  Each draws the arguments of the calls from its own     *)
(* small sets; the guards on Len(history) only bound the model.            *)

InitWith(names) ==
    /\ players = Construct(names)
    /\ history = <<>>
    /\ file = NoFile
    /\ saved = NoFile
    /\ op = Call("init", "")
    /\ ret = <<>>
    /\ sort_mode = "average"
    /\ dialogs = <<>>
    /\ add_dialogs = 0

\* the dicts that give a tag of tagsOf[n] to each name n of a subset of the
\* roster p, in roster order
RosterResults(p, tagsOf) ==
    LET pick(S) == LET ix == {i \in 1..Len(p) : p[i].name \in S}
                       nth(k) == CHOOSE i \in ix : Cardinality({j \in ix : j < i}) = k - 1
                   IN {[k \in 1..Cardinality(ix) |-> <<p[nth(k)].name, f[p[nth(k)].name]>>] :
                           f \in [S -> UNION {tagsOf[n] : n \in S}]}
        ok(r) == \A i \in 1..Len(r) : r[i][2] \in tagsOf[r[i][1]]
    IN {r \in UNION {pick(S) : S \in SUBSET Keys(p)} : ok(r)}

\* the same, with an entry for every rostered player
FullResults(p, tagsOf) == {r \in RosterResults(p, tagsOf) : Len(r) = Len(p)}

(* Spec: a league built empty; players added and removed, games recorded   *)
(* for rostered players, the league reset                                  *)

Init == InitWith(<<>>)

InTags == [n \in Names |-> {"1st", DNP}]

MvpIn == {"", "A"}

Record ==
    /\ Len(history) < MaxGames
    /\ \E r \in RosterResults(players, InTags), mvp \in MvpIn :
           record_game_results(r, "", mvp, "")
    /\ UNCHANGED_UI

AddPlayer == (\E n \in Names \cup {""} : add_player(n)) /\ UNCHANGED_UI

RemovePlayer == (\E n \in Names : remove_player(n)) /\ UNCHANGED_UI

ResetLeague == reset_league /\ UNCHANGED_UI

Next ==
    \/ Record
    \/ AddPlayer
    \/ RemovePlayer
    \/ ResetLeague

Spec == Init /\ [][Next]_vars

(* SpecTags: a league of two players, every placement tag                  *)

MaxTagGames == 2

AllTags == ValidTags \cup {UnknownTag}

TagsIn == [n \in Names |-> IF n = "A" THEN AllTags ELSE {"2nd", DNP}]

InitTags == InitWith(<<"A", "B">>)

TagRecord ==
    /\ Len(history) < MaxTagGames
    /\ \E r \in FullResults(players, TagsIn), mvp \in Names \cup {""} :
           record_game_results(r, "", mvp, "")
    /\ UNCHANGED_UI

NextTags ==
    \/ TagRecord
    \/ ResetLeague

SpecTags == InitTags /\ [][NextTags]_vars

(* SpecStandings: a league of three players and its standings              *)

MaxStandGames == 2

StandNames == <<"A", "B", "C">>

StandTags == [n \in Range(StandNames) |-> {"1st", "2nd", DNP}]

InitStandings == InitWith(StandNames)

StandRecord ==
    /\ Len(history) < MaxStandGames
    /\ \E r \in FullResults(players, StandTags), mvp \in {"", "A"} :
           record_game_results(r, "", mvp, "")
    /\ UNCHANGED_UI

GetStandings == (\E s \in {"average", "games", "points"} : get_standings(s)) /\ UNCHANGED_UI

NextStandings ==
    \/ StandRecord
    \/ GetStandings

SpecStandings == InitStandings /\ [][NextStandings]_vars

(* SpecFile: the league with its save file, the export and the standings   *)

MaxFileGames == 2

FileTags == [n \in Names |-> IF n = "A" THEN {"1st"} ELSE {"2nd"}]

FileRecord ==
    /\ Len(history) < MaxFileGames
    /\ \E r \in FullResults(players, FileTags) : record_game_results(r, "", "A", "")
    /\ UNCHANGED_UI

FileAdd == (\E n \in Names : add_player(n)) /\ UNCHANGED_UI

FileRemove == remove_player("A") /\ UNCHANGED_UI

FileStandings == (\E s \in {"average", "games"} : get_standings(s)) /\ UNCHANGED_UI

SaveToFile == save_to_file /\ UNCHANGED_UI

LoadFromFile == load_from_file /\ UNCHANGED_UI

ExportToCsv == export_to_csv /\ UNCHANGED_UI

NextFile ==
    \/ FileRecord
    \/ FileAdd
    \/ FileRemove
    \/ ResetLeague
    \/ FileStandings
    \/ SaveToFile
    \/ LoadFromFile
    \/ ExportToCsv

SpecFile == Init /\ [][NextFile]_vars

(* SpecMain: the league the program starts with, nine players              *)

MaxMainGames == 1

InitMain == InitWith(MainPlayers)

MainRecord ==
    /\ Len(history) < MaxMainGames
    /\ "Mike" \in Keys(players)
    /\ record_game_results(<<<<"Mike", "1st">>>>, "", "Mez", "")
    /\ UNCHANGED_UI

MainAdd == (\E n \in {"", "Mike", "Zed", "Yan"} : add_player(n)) /\ UNCHANGED_UI

MainRemove == (\E n \in {"Mike", "Steve", "Zed"} : remove_player(n)) /\ UNCHANGED_UI

NextMain ==
    \/ MainRecord
    \/ MainAdd
    \/ MainRemove

SpecMain == InitMain /\ [][NextMain]_vars

(* SpecRaw: record_game_results called with any dict, whether or not its   *)
(* names are rostered                                                      *)

MaxRawGames == 2

RawNames == {"A", "B", "X"}

RawResults ==
    UNION {{[i \in 1..Len(ns) |-> <<ns[i], f[i]>>] : f \in [1..Len(ns) -> {"1st", DNP}]} :
              ns \in Perms(RawNames)}

RawRecord ==
    /\ Len(history) < MaxRawGames
    /\ \E r \in RawResults : record_game_results(r, "", "B", "")
    /\ UNCHANGED_UI

NextRaw == RawRecord

SpecRaw == InitTags /\ [][NextRaw]_vars

----------------------------------------------------------------------------
(* LeagueApp: the callbacks of the main window.  Message boxes and the     *)
(* askstring dialog are modal (they return before any other callback       *)
(* runs), so each callback is one step.  The Record Game and Add Player    *)
(* dialogs are Toplevel children of the root and stay open between steps.  *)
(* The callbacks that only display (show_standings, show_history,          *)
(* export_csv, toggle_sort) are left out.                                  *)

MaxDialogs == 2

MaxAddDialogs == 1

MaxUIGames == 1

UIPlayers == <<"A">>

PickTags == {"1st", DNP}

KeySeq(p) == [i \in 1..Len(p) |-> p[i].name]

RemoveAt(s, k) == SubSeq(s, 1, k - 1) \o SubSeq(s, k + 1, Len(s))

\* a rebuild that destroys the main frame only
ChildrenAfterBuild_frameonly(ds) == ds

\* build_main_ui destroys every child of the root: the main frame and every
\* Toplevel created with the root as master
ChildrenAfterBuild(ds) == <<>>

AddDialogsAfterBuild(n) == 0

build_main_ui ==
    /\ dialogs' = ChildrenAfterBuild(dialogs)
    /\ add_dialogs' = AddDialogsAfterBuild(add_dialogs)

\* the dialog snapshots the roster in entries and mvp_choices; with an empty
\* roster OptionMenu(form, mvp_var, *[]) raises TypeError, and the dialog
\* stays open without its Record Game button
open_record_game_dialog ==
    /\ Len(dialogs) < MaxDialogs
    /\ dialogs' = Append(dialogs, [entries |-> KeySeq(players),
                                   mvp_choices |-> KeySeq(players),
                                   button |-> Len(players) > 0])
    /\ op' = NoCall
    /\ ret' = <<>>
    /\ UNCHANGED <<players, history, file, saved, sort_mode, add_dialogs>>

\* the Record Game button of dialog d, the user having picked a tag for
\* every entry and an MVP among mvp_choices
record(d, picks, mvp) ==
    LET dlg == dialogs[d]
        results == [i \in 1..Len(dlg.entries) |-> <<dlg.entries[i], picks[i]>>]
    IN /\ dlg.button
       /\ IF \A i \in 1..Len(results) : results[i][2] = DNP
          THEN /\ op' = NoCall
               /\ ret' = <<>>
               /\ UNCHANGED <<players, history, file, saved, dialogs>>
          ELSE /\ Len(history) < MaxUIGames
               /\ record_game_results(results, "", mvp, "")
               /\ dialogs' = IF op'.raised THEN dialogs ELSE RemoveAt(dialogs, d)
       /\ UNCHANGED <<sort_mode, add_dialogs>>

Press ==
    \E d \in 1..Len(dialogs) :
        \E picks \in [1..Len(dialogs[d].entries) -> PickTags],
           mvp \in Range(dialogs[d].mvp_choices) : record(d, picks, mvp)

save_league ==
    /\ save_to_file
    /\ UNCHANGED_UI

load_league ==
    /\ players' = (IF file # NoFile THEN LoadPlayers(file) ELSE players)
    /\ history' = (IF file # NoFile THEN LoadHistory(file) ELSE history)
    /\ build_main_ui
    /\ ret' = Standings(players', sort_mode)
    /\ op' = Call("load", IF file # NoFile THEN "read" ELSE NoFile)
    /\ UNCHANGED <<file, saved, sort_mode>>

open_add_player ==
    /\ add_dialogs < MaxAddDialogs
    /\ add_dialogs' = add_dialogs + 1
    /\ op' = NoCall
    /\ ret' = <<>>
    /\ UNCHANGED <<players, history, file, saved, sort_mode, dialogs>>

\* the Add button of an Add Player dialog; name is the entry, stripped
confirm(name) ==
    /\ add_dialogs > 0
    /\ IF name # ""
       THEN /\ add_player(name)
            /\ build_main_ui
       ELSE /\ add_dialogs' = add_dialogs - 1
            /\ op' = NoCall
            /\ ret' = <<>>
            /\ UNCHANGED <<players, history, file, saved, dialogs>>
    /\ UNCHANGED sort_mode

\* name is what askstring returned ("" also stands for Cancel); a rostered
\* name has no surrounding blanks, so name.strip() is name
ui_remove_player(name) ==
    /\ IF name # "" /\ name \in Keys(players)
       THEN /\ remove_player(name)
            /\ build_main_ui
       ELSE /\ op' = NoCall
            /\ ret' = <<>>
            /\ UNCHANGED <<players, history, file, saved, dialogs, add_dialogs>>
    /\ UNCHANGED sort_mode

ui_reset_league(yes) ==
    /\ IF yes
       THEN /\ reset_league
            /\ build_main_ui
       ELSE /\ op' = NoCall
            /\ ret' = <<>>
            /\ UNCHANGED <<players, history, file, saved, dialogs, add_dialogs>>
    /\ UNCHANGED sort_mode

InitUI == InitWith(UIPlayers)

Confirm == \E n \in {"B", ""} : confirm(n)

UIRemove == \E n \in {"B", ""} : ui_remove_player(n)

UIReset == \E yes \in BOOLEAN : ui_reset_league(yes)

NextUI ==
    \/ open_record_game_dialog
    \/ Press
    \/ save_league
    \/ load_league
    \/ open_add_player
    \/ Confirm
    \/ UIRemove
    \/ UIReset

SpecUI == InitUI /\ [][NextUI]_vars

----------------------------------------------------------------------------
(* Properties *)

\* the placement awards as the specification lists them
Award(tag) ==
    CASE tag = "1st" -> 5
      [] tag = "2nd" -> 3
      [] tag = "3rd" -> 2
      [] tag = "4th" -> 1
      [] tag = "5th+" -> 0

Placed(items, n) == n \in ItemKeys(items) /\ TagOf(items, n) # DNP

Sat(items, n) == n \in ItemKeys(items) /\ TagOf(items, n) = DNP

AwardOf(items, n) == IF Placed(items, n) THEN Award(TagOf(items, n)) ELSE 0

One(b) == IF b THEN 1 ELSE 0

ValidResults(items, p) ==
    /\ ItemKeys(items) \subseteq Keys(p)
    /\ \A i \in 1..Len(items) : items[i][2] \in ValidTags

\* C1 as stated: in a record_game_results call with rostered names and valid
\* tags, whatever the mvp, a player with a placement gains exactly 1 game and
\* exactly the placement award, and a "Did Not Play" player keeps points,
\* games_played and mvp_count.
C1_AsStated ==
    [][(op'.name = "record" /\ ValidResults(op'.arg[1], players)) =>
        /\ KeySeq(players') = KeySeq(players)
        /\ \A i \in 1..Len(players) :
              LET n == players[i].name
                  d == players[i]
                  e == players'[i]
              IN /\ Placed(op'.arg[1], n) =>
                      /\ e.games_played = d.games_played + 1
                      /\ e.points = d.points + Award(TagOf(op'.arg[1], n))
                 /\ Sat(op'.arg[1], n) =>
                      /\ e.points = d.points
                      /\ e.games_played = d.games_played
                      /\ e.mvp_count = d.mvp_count]_vars

\* C1 amended: in such a call a player with a placement gains exactly 1 game
\* and exactly the placement award, plus 1 point and 1 mvp_count when that
\* player is the mvp; a "Did Not Play" player keeps games_played, and keeps
\* points and mvp_count unless that player is the mvp, who gains 1 of each.
C1_PlacementCredit ==
    [][(op'.name = "record" /\ ValidResults(op'.arg[1], players)) =>
        /\ KeySeq(players') = KeySeq(players)
        /\ \A i \in 1..Len(players) :
              LET n == players[i].name
                  d == players[i]
                  e == players'[i]
                  bonus == One(op'.arg[2] = n)
              IN /\ Placed(op'.arg[1], n) =>
                      /\ e.games_played = d.games_played + 1
                      /\ e.points = d.points + Award(TagOf(op'.arg[1], n)) + bonus
                      /\ e.mvp_count = d.mvp_count + bonus
                 /\ Sat(op'.arg[1], n) =>
                      /\ e.games_played = d.games_played
                      /\ e.points = d.points + bonus
                      /\ e.mvp_count = d.mvp_count + bonus]_vars

\* a second game in which A came 4th and B, who did not play, was the MVP
C1_Witness ==
    /\ op.name = "record"
    /\ Len(history) = 2
    /\ op.arg[1] = <<<<"A", "4th">>, <<"B", DNP>>>>
    /\ op.arg[2] = "B"
    /\ Get(players, "A").games_played = 2
    /\ Get(players, "A").points = 6
    /\ Get(players, "B").points = 1

RECURSIVE GamesIn(_, _)
GamesIn(h, n) ==
    IF h = <<>> THEN 0
    ELSE GamesIn(Tail(h), n) + One(Placed(Head(h).results, n))

RECURSIVE MvpsIn(_, _)
MvpsIn(h, n) ==
    IF h = <<>> THEN 0
    ELSE MvpsIn(Tail(h), n) + One(Head(h).mvp = n)

RECURSIVE AwardsIn(_, _)
AwardsIn(h, n) ==
    IF h = <<>> THEN 0
    ELSE AwardsIn(Tail(h), n) + AwardOf(Head(h).results, n)

\* C3: every rostered player's stored games_played, points and mvp_count
\* equal the values recomputed from the history log.
C3_StatsMatchHistory ==
    \A i \in 1..Len(players) :
        LET n == players[i].name
        IN /\ players[i].games_played = GamesIn(history, n)
           /\ players[i].mvp_count = MvpsIn(history, n)
           /\ players[i].points = AwardsIn(history, n) + MvpsIn(history, n)

\* C4 as stated: every step other than reset_league leaves the history it
\* found as a prefix of the history it leaves.
C4_AsStated ==
    [][op'.name # "reset" => IsPrefix(history, history')]_vars

\* C4 amended: record_game_results appends exactly one record to an unchanged
\* log; add_player, remove_player, get_standings, save_to_file, export_to_csv
\* and load_from_file without a file leave the log as it is; the steps that
\* drop or replace records are reset_league, which empties the log, and
\* load_from_file with a file, which replaces the log by the saved one.
C4_HistoryAppendOnly ==
    [][/\ op'.name = "record" =>
            /\ Len(history') = Len(history) + 1
            /\ SubSeq(history', 1, Len(history)) = history
            /\ history'[Len(history')].results = op'.arg[1]
            /\ history'[Len(history')].mvp = op'.arg[2]
       /\ op'.name \in {"add", "remove", "standings", "save", "export"} =>
            history' = history
       /\ op'.name = "reset" => history' = <<>>
       /\ op'.name = "load" =>
            history' = (IF file = NoFile THEN history ELSE saved.history)]_vars

\* a second, different game recorded on top of the first
C4_Witness ==
    /\ op.name = "record"
    /\ Len(history) = 2
    /\ history[1] # history[2]

\* C5: load_from_file with the file present leaves exactly the league that
\* save_to_file last wrote: the same players in the same order with the same
\* points, games_played, mvp_count and color, the same history in the same
\* order, and the same standings for both sort keys; without a file it leaves
\* players and history as they are and does not raise.
C5_SaveLoadRoundTrip ==
    [][op'.name = "load" =>
        /\ ~op'.raised
        /\ IF file = NoFile
           THEN players' = players /\ history' = history
           ELSE /\ players' = saved.players
                /\ history' = saved.history
                /\ \A s \in {"average", "games"} :
                      Standings(players', s) = Standings(saved.players, s)]_vars

\* a load that brought back two players, B rostered before A, and two games
C5_Witness ==
    /\ op.name = "load"
    /\ op.arg = "read"
    /\ KeySeq(players) = <<"B", "A">>
    /\ Len(history) = 2
    /\ Get(players, "A").points > 0

\* C6: get_standings returns one row (name, points, games_played, average,
\* mvp_count) per rostered player and no other row; average is points /
\* games_played when games_played > 0 and 0 otherwise; rows are in
\* non-increasing order of games_played for "games" and of average for any
\* other sort_by; the call changes neither players nor history.
C6_Standings ==
    [][op'.name = "standings" =>
        /\ players' = players
        /\ history' = history
        /\ Len(ret') = Len(players)
        /\ \A i \in 1..Len(players) :
              \E j \in 1..Len(ret') :
                 LET d == players[i]
                     row == ret'[j]
                 IN /\ row[1] = d.name
                    /\ row[2] = d.points
                    /\ row[3] = d.games_played
                    /\ row[5] = d.mvp_count
                    /\ row[4][2] > 0
                    /\ IF d.games_played > 0
                       THEN row[4][1] * d.games_played = d.points * row[4][2]
                       ELSE row[4][1] = 0
        /\ \A j \in 1..(Len(ret') - 1) :
              IF op'.arg = "games"
              THEN ret'[j][3] >= ret'[j + 1][3]
              ELSE ret'[j][4][1] * ret'[j + 1][4][2] >= ret'[j + 1][4][1] * ret'[j][4][2]]_vars

\* standings by games that put C before B although B has the higher average,
\* with A, who holds an MVP point and no game, last at average 0
C6_Witness ==
    /\ op.name = "standings"
    /\ op.arg = "games"
    /\ Len(ret) = 3
    /\ ret[1][1] = "C" /\ ret[2][1] = "B" /\ ret[3][1] = "A"
    /\ ret[2][4][1] * ret[1][4][2] > ret[1][4][1] * ret[2][4][2]
    /\ ret[3][2] > 0 /\ ret[3][3] = 0 /\ ret[3][4] = <<0, 1>>

\* C7: reset_league leaves every rostered player at points = games_played =
\* mvp_count = 0, so that the standings show average 0 for each, leaves the
\* history empty, and keeps the rostered names and every player's color.
C7_Reset ==
    [][op'.name = "reset" =>
        /\ history' = <<>>
        /\ KeySeq(players') = KeySeq(players)
        /\ \A i \in 1..Len(players) :
              /\ players'[i].points = 0
              /\ players'[i].games_played = 0
              /\ players'[i].mvp_count = 0
              /\ players'[i].color = players[i].color
        /\ \A s \in {"average", "games"} :
              LET st == Standings(players', s)
              IN /\ Len(st) = Len(players)
                 /\ \A j \in 1..Len(st) :
                       st[j][2] = 0 /\ st[j][3] = 0 /\ st[j][4][1] = 0 /\ st[j][5] = 0]_vars

\* a reset of a league of two players, B rostered before A
C7_Witness ==
    /\ op.name = "reset"
    /\ KeySeq(players) = <<"B", "A">>
    /\ history = <<>>

\* C8: add_player and remove_player leave the history and every other
\* player's entry as they are.  add_player changes nothing when the name is
\* empty or rostered, and otherwise puts the name last with points =
\* games_played = mvp_count = 0 and the palette color at index (roster size
\* before the insert) mod 9.  remove_player changes nothing when the name is
\* not rostered, and otherwise deletes that one entry.
C8_AddRemoveFrame ==
    [][/\ op'.name = "add" =>
            /\ history' = history
            /\ IF op'.arg = "" \/ op'.arg \in Keys(players)
               THEN players' = players
               ELSE /\ Len(players') = Len(players) + 1
                    /\ SubSeq(players', 1, Len(players)) = players
                    /\ players'[Len(players')] =
                          [name |-> op'.arg, points |-> 0, games_played |-> 0,
                           mvp_count |-> 0,
                           color |-> team_colors[(Len(players) % 9) + 1]]
       /\ op'.name = "remove" =>
            /\ history' = history
            /\ IF op'.arg \notin Keys(players)
               THEN players' = players
               ELSE players' = SelectSeq(players, LAMBDA d : d.name # op'.arg)]_vars

\* an eleventh player added after a game: the palette has wrapped round to
\* its second color, and Mike and Mez keep what the game gave them
C8_Witness ==
    /\ op.name = "add"
    /\ op.arg = "Yan"
    /\ Len(players) = 11
    /\ players[11].name = "Yan"
    /\ players[11].color = "blue"
    /\ players[10].color = "red"
    /\ Get(players, "Mike").points = 5
    /\ Get(players, "Mez").mvp_count = 1
    /\ Len(history) = 1

\* C9: every record_game_results call made from a Record Game dialog passes
\* results whose keys are exactly the roster of that moment and an mvp
\* rostered at that moment, and does not raise; no dialog that can record
\* holds a roster snapshot that differs from the roster.
C9_DialogsFresh ==
    /\ op.name = "record" =>
          /\ ItemKeys(op.arg[1]) = Keys(players)
          /\ op.arg[2] \in Keys(players)
          /\ ~op.raised
    /\ \A d \in 1..Len(dialogs) :
          dialogs[d].button =>
             /\ dialogs[d].entries = KeySeq(players)
             /\ dialogs[d].mvp_choices = KeySeq(players)

\* a game recorded from one of two dialogs opened on a roster of two, the
\* other dialog still open, after a save
C9_Witness ==
    /\ op.name = "record"
    /\ Len(players) = 2
    /\ Len(dialogs) = 1
    /\ dialogs[1].button
    /\ file # NoFile

\* the first entry of items that names an unrostered player with a placement
FirstUnknown(items, p) ==
    LET bad == {i \in 1..Len(items) : items[i][1] \notin Keys(p) /\ items[i][2] # DNP}
    IN IF bad = {} THEN 0 ELSE CHOOSE i \in bad : \A j \in bad : i <= j

\* C10: record_game_results raises exactly when results gives a placement to
\* an unrostered name.  It then has appended the game record and credited
\* points and games to the rostered players placed before that entry, and
\* has credited neither the players after it nor the MVP.  An unrostered
\* name that did not play raises nothing.
C10_PartialRecord ==
    [][op'.name = "record" =>
        LET items == op'.arg[1]
            k == FirstUnknown(items, players)
            done == IF k = 0 THEN items ELSE SubSeq(items, 1, k - 1)
        IN /\ op'.raised = (k # 0)
           /\ history' = Append(history, [results |-> items, notes |-> "",
                                          mvp |-> op'.arg[2], deck_used |-> ""])
           /\ KeySeq(players') = KeySeq(players)
           /\ \A i \in 1..Len(players) :
                 LET n == players[i].name
                     bonus == One(k = 0 /\ op'.arg[2] = n)
                 IN /\ players'[i].points = players[i].points + AwardOf(done, n) + bonus
                    /\ players'[i].games_played =
                          players[i].games_played + One(Placed(done, n))
                    /\ players'[i].mvp_count = players[i].mvp_count + bonus]_vars

\* a second game that failed at X: A, listed before X, has its points, B,
\* listed after, has none from it and no MVP point
C10_Witness ==
    /\ op.name = "record"
    /\ op.raised
    /\ op.arg[1] = <<<<"A", "1st">>, <<"X", "1st">>, <<"B", "1st">>>>
    /\ history = <<[results |-> <<<<"X", DNP>>, <<"B", "1st">>>>, notes |-> "",
                     mvp |-> "B", deck_used |-> ""],
                   [results |-> op.arg[1], notes |-> "", mvp |-> "B", deck_used |-> ""]>>
    /\ Get(players, "A").points = 5
    /\ Get(players, "B").points = 6
    /\ Get(players, "B").games_played = 1

====
